---- MODULE Spec2Model ----
(***************************************************************************)
(* EasyPRT, history-parsing/parser.py: the history log (history.txt), the  *)
(* two passes that rewrite it (remove_earlier_duplicate_trips and          *)
(* log_scheduled_arrival_times, the latter reading schedule.txt), the      *)
(* conversion of a trip's start date and seconds, and the poll loop of     *)
(* __main__ with its KeyboardInterrupt handler.                            *)
(*                                                                         *)
(* A line of a file is the sequence of its comma-separated fields, i.e.    *)
(* what line.strip().split(",") returns; a blank line is <<"">>.  Every    *)
(* writer of history.txt ends a line with "\n" and writes no blank around  *)
(* it (parser.py lines 68, 87, 186, 195), so strip() removes the line      *)
(* terminator only and line.strip() + "\n" is the line again.              *)
(***************************************************************************)
EXTENDS Integers, Sequences, FiniteSets, TLC

VARIABLES
    pc,        \* where the program (or the pass under check) stands
    history,   \* history.txt: a sequence of lines
    schedule,  \* schedule.txt: a sequence of lines, the column names first
    before,    \* history.txt as the last operation found it
    runs,      \* how many passes / poll cycles have run
    feed,      \* the live feed's last response
    conv       \* convert_scheduled_start_date_time: its arguments and result

vars == <<pc, history, schedule, before, runs, feed, conv>>

----------------------------------------------------------------------------
(* Bounds *)

MaxRows == 3        \* data lines of a log handed to the deduplicator
MaxRuns == 2        \* consecutive runs of one pass on its own output

\* no conversion under way; no response received yet
NoConv == [date |-> <<>>, seconds |-> 0, result |-> <<>>]

NoFeed == [kind |-> "none", prd |-> <<>>]

----------------------------------------------------------------------------
(* Sequences *)

RECURSIVE Reverse(_)
Reverse(s) == IF s = <<>> THEN <<>> ELSE Append(Reverse(Tail(s)), Head(s))

Range(s) == {s[i] : i \in 1..Len(s)}

RECURSIVE SeqsUpTo(_, _)
SeqsUpTo(S, n) ==
    IF n = 0 THEN {<<>>}
    ELSE LET shorter == SeqsUpTo(S, n - 1)
         IN  shorter \cup {Append(s, x) : s \in {t \in shorter : Len(t) = n - 1}, x \in S}

----------------------------------------------------------------------------
(* history.txt *)

\* write_first_line: the column names
header_line ==
    <<"tatripid", "log_time", "stop_name", "stop_id", "route_id", "direction",
      "scheduled_start_date", "scheduled_start_time", "actual_arrival_time",
      "scheduled_arrival_time">>

\* the line log_actual_arrivals writes for one prediction (9 fields)
observation(tatripid, log_time, stpid, rt, rtdir, start_date, start_time) ==
    <<tatripid, log_time, "'Forbes'", stpid, rt, rtdir, start_date, start_time, "06:40">>

----------------------------------------------------------------------------
(* remove_earlier_duplicate_trips *)

\* lines = reversed(history.readlines())
reversed_readlines(lines) == Reverse(lines)

\* Mutant: the key as the function's comment words it, without the date.
trip_stop_combo_without_date(lst) == <<lst[1], lst[4]>>

\* (trip_id, stop_id, scheduled_start_date) = (lst[0], lst[3], lst[6])
trip_stop_combo(lst) == <<lst[1], lst[4], lst[7]>>

\* The body of the for loop over the reversed lines.  lst[3] or lst[6] of a
\* line with fewer than 7 fields raises IndexError; the except clause names
\* ValueError, which nothing in the try block raises, so the IndexError
\* leaves the function before history.txt is reopened for writing.
RECURSIVE dedup_loop(_, _, _)
dedup_loop(lines, seen_trip_stop_combos, unique_lines) ==
    IF lines = <<>> THEN [raised |-> "", unique_lines |-> unique_lines]
    ELSE LET lst == Head(lines)
         IN  IF Len(lst) < 7
             THEN [raised |-> "IndexError", unique_lines |-> unique_lines]
             ELSE IF trip_stop_combo(lst) \notin seen_trip_stop_combos
                  THEN dedup_loop(Tail(lines),
                                  seen_trip_stop_combos \cup {trip_stop_combo(lst)},
                                  Append(unique_lines, lst))
                  ELSE dedup_loop(Tail(lines), seen_trip_stop_combos, unique_lines)

\* Mutant: the kept lines are written back in scan order.
unique_lines_not_reversed(unique_lines) == unique_lines

\* unique_lines.reverse()
unique_lines_reverse(unique_lines) == Reverse(unique_lines)

\* The whole function: what it raises, and history.txt afterwards.
remove_earlier_duplicate_trips(lines) ==
    LET r == dedup_loop(reversed_readlines(lines), {}, <<>>)
    IN  IF r.raised # ""
        THEN [raised |-> r.raised, lines |-> lines]
        ELSE [raised |-> "", lines |-> unique_lines_reverse(r.unique_lines)]

----------------------------------------------------------------------------
(* The deduplicator on its own: any log, then the pass, again and again *)

\* 9-field observations over four keys that differ from the first in one
\* component each, logged at two times
DedupKeys ==
    {<<"t1", "1177", "2023-12-11">>, <<"t2", "1177", "2023-12-11">>,
     <<"t1", "7117", "2023-12-11">>, <<"t1", "1177", "2023-12-12">>}

DedupObservations ==
    {observation(k[1], tm, k[2], "61A", "OUTBOUND", k[3], "06:35") :
        k \in DedupKeys, tm \in {"2023-12-11T06:30", "2023-12-11T06:31"}}

\* an observation that already carries its scheduled arrival time (10 fields)
MatchedObservation ==
    Append(observation("t1", "2023-12-11T06:29", "1177", "61A", "OUTBOUND",
                       "2023-12-11", "06:35"), "06:42")

\* lines with fewer than 9 fields: blank, cut after 3 fields, cut after 7
BlankLine == <<"">>
TruncatedLine3 == <<"t1", "2023-12-11T06:30", "'Forbes'">>
TruncatedLine7 ==
    <<"t1", "2023-12-11T06:30", "'Forbes'", "1177", "61A", "OUTBOUND", "2023-12-11">>

DedupLines ==
    DedupObservations \cup {MatchedObservation, BlankLine, TruncatedLine3, TruncatedLine7}

DedupLogs == {<<header_line>> \o rows : rows \in SeqsUpTo(DedupLines, MaxRows)}

InitDedup ==
    /\ pc = "ready"
    /\ history \in DedupLogs
    /\ schedule = <<>>
    /\ before = <<>>
    /\ runs = 0
    /\ feed = NoFeed
    /\ conv = NoConv

\* One run of the pass over history.txt.
RunDedup ==
    /\ pc \in {"ready", "returned"}
    /\ runs < MaxRuns
    /\ LET r == remove_earlier_duplicate_trips(history)
       IN  /\ pc' = IF r.raised = "" THEN "returned" ELSE "raised"
           /\ history' = r.lines
    /\ before' = history
    /\ runs' = runs + 1
    /\ UNCHANGED <<schedule, feed, conv>>

NextDedup == RunDedup

SpecDedup == InitDedup /\ [][NextDedup]_vars

----------------------------------------------------------------------------
(* Clock strings *)

\* The numbers a clock string holds between its colons (s.split(":") read
\* with int()): "HH:MM:SS" in schedule.txt, "HH:MM" in history.txt.
clock_fields(s) ==
    CASE s = "06:35:00" -> <<6, 35, 0>>
      [] s = "06:42:00" -> <<6, 42, 0>>
      [] s = "25:10:00" -> <<25, 10, 0>>
      [] s = "06:35"    -> <<6, 35>>
      [] s = "06:42"    -> <<6, 42>>
      [] s = "01:10"    -> <<1, 10>>
      [] s = "00:05"    -> <<0, 5>>
      [] s = "24:05"    -> <<24, 5>>

MinuteStrings == {"06:35", "06:42", "01:10", "00:05", "24:05"}

\* strftime('%H:%M') of a time of day: two digits each
strftime_HM(hour, minute) ==
    CHOOSE s \in MinuteStrings : clock_fields(s) = <<hour, minute>>

\* str.startswith on two zero-padded clock strings
startswith(s, prefix) ==
    LET a == clock_fields(s)
        p == clock_fields(prefix)
    IN  Len(p) <= Len(a) /\ SubSeq(a, 1, Len(p)) = p

----------------------------------------------------------------------------
(* find_scheduled_arrival_time *)

None == "None"

\* lines[i] of a Python list
at(lines, i) == lines[i + 1]

\* "0" if direction == "OUTBOUND" else "1"
schedule_style_direction(direction) == IF direction = "OUTBOUND" THEN "0" ELSE "1"

\* The first for loop, from index i on: the index it breaks at, or the last
\* index of range(1, len(lines)) when it runs out.
RECURSIVE trip_start_loop(_, _, _, _, _)
trip_start_loop(lines, i, route_id, direction, scheduled_start_time) ==
    IF i >= Len(lines) THEN i - 1
    ELSE LET stop == at(lines, i)
         IN  IF /\ stop[2] = route_id
                /\ stop[4] = schedule_style_direction(direction)
                /\ startswith(stop[5], scheduled_start_time)
                /\ (i = 1 \/ at(lines, i - 1)[2] # route_id)
             THEN i
             ELSE trip_start_loop(lines, i + 1, route_id, direction, scheduled_start_time)

\* datetime.strptime(stop[4], '%H:%M:%S').strftime('%H:%M'), and on its
\* ValueError (an hour above 23) the same with 24 taken off the hour; an hour
\* still above 23 raises ValueError out of the except clause.
arrival_time_HM(arrival_time) ==
    LET t == clock_fields(arrival_time)
    IN  IF t[1] <= 23 THEN [raised |-> "", value |-> strftime_HM(t[1], t[2])]
        ELSE IF t[1] - 24 <= 23
             THEN [raised |-> "", value |-> strftime_HM(t[1] - 24, t[2])]
             ELSE [raised |-> "ValueError", value |-> None]

\* The second for loop, for j in range(i + 1, len(lines)), from index j on:
\* the first line to the end of the table whose stop_id is the one looked
\* for; None when the loop runs out.
RECURSIVE stop_loop(_, _, _)
stop_loop(lines, j, stop_id) ==
    IF j >= Len(lines) THEN [raised |-> "", value |-> None]
    ELSE IF at(lines, j)[7] = stop_id
         THEN arrival_time_HM(at(lines, j)[5])
         ELSE stop_loop(lines, j + 1, stop_id)

\* The whole function over schedule.txt's lines.  With no line after the
\* column names range(1, len(lines)) is empty, i is never bound and i + 1
\* raises UnboundLocalError.
find_scheduled_arrival_time(lines, stop_id, route_id, direction, scheduled_start_time) ==
    IF Len(lines) <= 1 THEN [raised |-> "UnboundLocalError", value |-> None]
    ELSE LET i == trip_start_loop(lines, 1, route_id, direction, scheduled_start_time)
         IN  stop_loop(lines, i + 1, stop_id)

----------------------------------------------------------------------------
(* log_scheduled_arrival_times *)

\* Mutant: every row is looked up again, whatever its field count.
already_matched_never(lst) == FALSE

\* len(lst) == 10
already_matched(lst) == Len(lst) = 10

\* The for loop over history.txt's lines from index i on.
RECURSIVE match_loop(_, _, _, _)
match_loop(lines, i, sched, new_lines) ==
    IF i >= Len(lines) THEN [raised |-> "", new_lines |-> new_lines]
    ELSE LET lst == at(lines, i)
         IN  IF already_matched(lst)
             THEN match_loop(lines, i + 1, sched, Append(new_lines, lst))
             ELSE IF Len(lst) < 8
                  THEN [raised |-> "IndexError", new_lines |-> new_lines]
                  ELSE LET found == find_scheduled_arrival_time(
                                        sched, lst[4], lst[5], lst[6], lst[8])
                       IN  IF found.raised # ""
                           THEN [raised |-> found.raised, new_lines |-> new_lines]
                           ELSE IF found.value # None
                                THEN match_loop(lines, i + 1, sched,
                                                Append(new_lines, Append(lst, found.value)))
                                ELSE match_loop(lines, i + 1, sched, new_lines)

\* The whole function: what it raises, and history.txt afterwards (it is
\* reopened for writing only after the loop).
log_scheduled_arrival_times(lines, sched) ==
    IF lines = <<>> THEN [raised |-> "IndexError", lines |-> lines]
    ELSE LET r == match_loop(lines, 1, sched, <<at(lines, 0)>>)
         IN  IF r.raised # ""
             THEN [raised |-> r.raised, lines |-> lines]
             ELSE [raised |-> "", lines |-> r.new_lines]

----------------------------------------------------------------------------
(* The schedule matcher on its own: any timetable, any log, then the pass *)

MaxStops == 3       \* data lines of schedule.txt
MaxObs == 2         \* data lines of a log handed to the matcher

\* schedule-parsing/parser.py: the column names of schedule.txt
schedule_titles ==
    <<"trip_id", "route_id", "service_id", "route_direction", "arrival_time",
      "departure_time", "stop_id", "stop_name", "stop_latitude", "stop_longitude">>

\* one line of schedule.txt
stop_time(trip_id, route_id, direction, arrival_time, stop_id) ==
    <<trip_id, route_id, "Weekday", direction, arrival_time, arrival_time, stop_id,
      "Forbes", "40.44", "-79.94">>

\* Trip T1 of route 61A outbound leaves stop 1177 at 06:35 and calls at 7117;
\* trip T2 of the same route leaves 1177 at 06:42; trip T3 of route 71C
\* inbound leaves 7117 at 06:35 and reaches 1177 after midnight.
StopTimes ==
    {stop_time("T1", "61A", "0", "06:35:00", "1177"),
     stop_time("T1", "61A", "0", "06:42:00", "7117"),
     stop_time("T2", "61A", "0", "06:42:00", "1177"),
     stop_time("T3", "71C", "1", "06:35:00", "7117"),
     stop_time("T3", "71C", "1", "25:10:00", "1177")}

Timetables == {<<schedule_titles>> \o rows : rows \in SeqsUpTo(StopTimes, MaxStops)}

MatcherObservations ==
    {observation("t1", "2023-12-11T06:30", "1177", "61A", "OUTBOUND", "2023-12-11", "06:35"),
     observation("t1", "2023-12-11T06:30", "7117", "61A", "OUTBOUND", "2023-12-11", "06:35"),
     observation("t3", "2023-12-11T06:30", "1177", "71C", "INBOUND", "2023-12-11", "06:35"),
     observation("t4", "2023-12-11T06:30", "7117", "61A", "INBOUND", "2023-12-11", "06:35"),
     observation("t2", "2023-12-11T06:30", "1177", "61A", "OUTBOUND", "2023-12-11", "06:42")}

\* a 9-field observation whose stop name holds a comma: 10 fields, no
\* scheduled arrival time among them
CommaInStopName ==
    <<"t1", "2023-12-11T06:30", "'Fifth Ave", " Downtown'", "1177", "61A", "OUTBOUND",
      "2023-12-11", "06:35", "06:40">>

\* the same with two commas in the stop name: 11 fields, of which the
\* matcher reads the 4th to 6th and the 8th as stop, route, direction and
\* start time
TwoCommasInStopName ==
    <<"t1", "2023-12-11T06:30", "'Fifth Ave", " Smithfield St", " Downtown'", "1177", "61A",
      "OUTBOUND", "2023-12-11", "06:35", "06:40">>

MatcherLines ==
    MatcherObservations \cup {MatchedObservation, CommaInStopName, TwoCommasInStopName}

MatcherLogs == {<<header_line>> \o rows : rows \in SeqsUpTo(MatcherLines, MaxObs)}

InitMatch ==
    /\ pc = "ready"
    /\ history \in MatcherLogs
    /\ schedule \in Timetables
    /\ before = <<>>
    /\ runs = 0
    /\ feed = NoFeed
    /\ conv = NoConv

\* One run of the pass over history.txt.
RunMatch ==
    /\ pc \in {"ready", "returned"}
    /\ runs < MaxRuns
    /\ LET r == log_scheduled_arrival_times(history, schedule)
       IN  /\ pc' = IF r.raised = "" THEN "returned" ELSE "raised"
           /\ history' = r.lines
    /\ before' = history
    /\ runs' = runs + 1
    /\ UNCHANGED <<schedule, feed, conv>>

NextMatch == RunMatch

SpecMatch == InitMatch /\ [][NextMatch]_vars

----------------------------------------------------------------------------
(* convert_scheduled_start_date_time *)

\* A date string is modelled by the numbers it holds, <<year, month, day>>,
\* and the returned "HH:MM" by <<hour, minute>>.

IsLeapYear(y) == (y % 4 = 0 /\ y % 100 # 0) \/ y % 400 = 0

DaysInMonth(y, m) ==
    IF m = 2 THEN (IF IsLeapYear(y) THEN 29 ELSE 28)
    ELSE IF m \in {4, 6, 9, 11} THEN 30 ELSE 31

NextDay(date) ==
    IF date[3] < DaysInMonth(date[1], date[2]) THEN <<date[1], date[2], date[3] + 1>>
    ELSE IF date[2] < 12 THEN <<date[1], date[2] + 1, 1>>
    ELSE <<date[1] + 1, 1, 1>>

RECURSIVE AddDays(_, _)
AddDays(date, n) == IF n = 0 THEN date ELSE AddDays(NextDay(date), n - 1)

\* original_date + timedelta(seconds=int(seconds_str)), as strftime prints
\* it: the date, the hour and the minute
datetime_plus_seconds(date, seconds) ==
    [date   |-> AddDays(date, seconds \div 86400),
     hour   |-> (seconds % 86400) \div 3600,
     minute |-> (seconds % 3600) \div 60]

\* The whole function: (date_str, time_str).  The date is the one of the sum;
\* a time that starts with "00:" gets "24:" for it.
convert_scheduled_start_date_time(date, seconds) ==
    LET date_time == datetime_plus_seconds(date, seconds)
    IN  <<date_time.date,
          IF date_time.hour = 0 THEN <<24, date_time.minute>>
          ELSE <<date_time.hour, date_time.minute>>>>

----------------------------------------------------------------------------
(* The conversion on its own: any date and seconds, then the call *)

MaxMinutes == 2945  \* seconds past midnight go up to two days and an hour

StartDates == {<<2023, 12, 11>>, <<2023, 12, 31>>, <<2024, 2, 28>>, <<2023, 2, 28>>}

StartSeconds == {60 * m + r : m \in 0..MaxMinutes, r \in {0, 59}}

InitConv ==
    /\ pc = "ready"
    /\ history = <<>>
    /\ schedule = <<>>
    /\ before = <<>>
    /\ runs = 0
    /\ feed = NoFeed
    /\ conv \in [date : StartDates, seconds : StartSeconds, result : {<<>>}]

RunConv ==
    /\ pc = "ready"
    /\ pc' = "returned"
    /\ conv' = [conv EXCEPT !.result =
                    convert_scheduled_start_date_time(conv.date, conv.seconds)]
    /\ UNCHANGED <<history, schedule, before, runs, feed>>

NextConv == RunConv

SpecConv == InitConv /\ [][NextConv]_vars

----------------------------------------------------------------------------
(* log_actual_arrivals *)

\* datetime.strptime(date_str, '%Y-%m-%d'): the numbers of a date string
date_fields(s) ==
    CASE s = "2023-12-11" -> <<2023, 12, 11>>
      [] s = "2023-12-12" -> <<2023, 12, 12>>

\* strftime('%Y-%m-%d')
strftime_date(date) ==
    CHOOSE s \in {"2023-12-11", "2023-12-12"} : date_fields(s) = date

\* datetime.strptime(tmstmp, '%Y%m%d %H:%M').strftime('%Y-%m-%dT%H:%M')
log_time_of(tmstmp) ==
    CASE tmstmp = "20231211 06:30" -> "2023-12-11T06:30"
      [] tmstmp = "20231211 06:31" -> "2023-12-11T06:31"

\* One entry of data["bustime-response"]["prd"]; complete tells whether it
\* holds every key the f-string reads.
prediction(tatripid, tmstmp, stpid, rt, rtdir, stsd, stst, complete) ==
    [tatripid |-> tatripid, tmstmp |-> tmstmp, stpid |-> stpid, rt |-> rt,
     rtdir |-> rtdir, stsd |-> stsd, stst |-> stst, complete |-> complete]

\* the line written for one complete entry
arrival_line(arrival) ==
    LET scheduled == convert_scheduled_start_date_time(date_fields(arrival.stsd), arrival.stst)
    IN  observation(arrival.tatripid, log_time_of(arrival.tmstmp), arrival.stpid,
                    arrival.rt, arrival.rtdir, strftime_date(scheduled[1]),
                    strftime_HM(scheduled[2][1], scheduled[2][2]))

\* The for loop over arrivals: an entry that lacks a key raises KeyError
\* when its line is built, after the lines of the entries before it were
\* written.
RECURSIVE write_arrivals(_, _)
write_arrivals(arrivals, lines) ==
    IF arrivals = <<>> THEN [raised |-> "", lines |-> lines]
    ELSE IF ~Head(arrivals).complete THEN [raised |-> "KeyError", lines |-> lines]
    ELSE write_arrivals(Tail(arrivals), Append(lines, arrival_line(Head(arrivals))))

\* data = response.json(), outside the try block: a body that is not JSON
\* raises JSONDecodeError
response_json(response) ==
    IF response.kind = "not_json" THEN [raised |-> "JSONDecodeError", kind |-> "not_json"]
    ELSE [raised |-> "", kind |-> response.kind]

\* The whole function: what it raises, and history.txt afterwards.  Only the
\* lookup of data["bustime-response"]["prd"] is inside try/except.
log_actual_arrivals(lines, response) ==
    LET data == response_json(response)
    IN  IF data.raised # "" THEN [raised |-> data.raised, lines |-> lines]
        ELSE IF data.kind = "no_prd" THEN [raised |-> "", lines |-> lines]
        ELSE write_arrivals(response.prd, lines)

----------------------------------------------------------------------------
(* __main__: the poll loop and the KeyboardInterrupt handler *)

MaxPolls == 2       \* poll cycles of one run of the program

\* schedule.txt as the timetable builder writes it: trip after trip
BuiltTimetable ==
    <<schedule_titles,
      stop_time("T1", "61A", "0", "06:35:00", "1177"),
      stop_time("T1", "61A", "0", "06:42:00", "7117"),
      stop_time("T2", "61A", "0", "06:42:00", "1177"),
      stop_time("T3", "71C", "1", "06:35:00", "7117"),
      stop_time("T3", "71C", "1", "25:10:00", "1177")>>

\* trip t1 predicted at stop 7117 in two successive polls; trip t3, which
\* started five minutes after midnight; an entry that lacks a key
Arrival1 == prediction("t1", "20231211 06:30", "7117", "61A", "OUTBOUND", "2023-12-11", 23700, TRUE)
Arrival2 == prediction("t1", "20231211 06:31", "7117", "61A", "OUTBOUND", "2023-12-11", 23700, TRUE)
Arrival3 == prediction("t3", "20231211 06:30", "1177", "71C", "INBOUND", "2023-12-11", 300, TRUE)
Incomplete == prediction("t1", "20231211 06:31", "7117", "61A", "OUTBOUND", "2023-12-11", 23700, FALSE)

Responses ==
    {[kind |-> "not_json", prd |-> <<>>], [kind |-> "no_prd", prd |-> <<>>]}
    \cup {[kind |-> "prd", prd |-> a] :
            a \in {<<>>, <<Arrival1>>, <<Arrival2>>, <<Arrival1, Arrival3>>,
                   <<Arrival1, Incomplete>>, <<Incomplete>>}}

\* history.txt exists when the program starts: empty, or as an earlier run
\* left it
Init ==
    /\ pc = "start"
    /\ history \in {<<>>, <<header_line, MatchedObservation>>}
    /\ schedule = BuiltTimetable
    /\ before = <<>>
    /\ runs = 0
    /\ feed = NoFeed
    /\ conv = NoConv

\* if os.stat(history_relative_path).st_size == 0: write_first_line()
Start ==
    /\ pc = "start"
    /\ history' = IF history = <<>> THEN <<header_line>> ELSE history
    /\ pc' = "working"
    /\ UNCHANGED <<schedule, before, runs, feed, conv>>

\* print("Working..."); log_actual_arrivals(url_params); print("Sleeping...")
\* An exception other than KeyboardInterrupt leaves the try statement
\* unhandled and ends the process.
Poll ==
    /\ pc = "working"
    /\ runs < MaxPolls
    /\ \E response \in Responses :
          LET r == log_actual_arrivals(history, response)
          IN  /\ feed' = response
              /\ history' = r.lines
              /\ pc' = IF r.raised = "" THEN "sleeping" ELSE "poll_raised"
    /\ before' = history
    /\ runs' = runs + 1
    /\ UNCHANGED <<schedule, conv>>

\* time.sleep(log_frequency_in_seconds) returns
Wake ==
    /\ pc = "sleeping"
    /\ pc' = "working"
    /\ UNCHANGED <<history, schedule, before, runs, feed, conv>>

\* KeyboardInterrupt during time.sleep
InterruptSleeping ==
    /\ pc = "sleeping"
    /\ pc' = "interrupted"
    /\ before' = history
    /\ UNCHANGED <<history, schedule, runs, feed, conv>>

\* KeyboardInterrupt during log_actual_arrivals: in the request, or in the
\* for loop after k lines were written; leaving the with block closes the
\* file with those lines in it.
InterruptWorking ==
    /\ pc = "working"
    /\ \E response \in Responses :
          LET r == log_actual_arrivals(history, response)
          IN  \E k \in 0..(Len(r.lines) - Len(history)) :
                 /\ feed' = response
                 /\ history' = SubSeq(r.lines, 1, Len(history) + k)
                 /\ before' = history'
    /\ pc' = "interrupted"
    /\ UNCHANGED <<schedule, runs, conv>>

\* Mutant: the handler goes straight to the matching pass.
handler_first_pass_skipped(lines) == [raised |-> "", lines |-> lines]

\* except KeyboardInterrupt: remove_earlier_duplicate_trips()
handler_first_pass(lines) == remove_earlier_duplicate_trips(lines)

Deduplicate ==
    /\ pc = "interrupted"
    /\ LET r == handler_first_pass(history)
       IN  /\ history' = r.lines
           /\ pc' = IF r.raised = "" THEN "deduplicated" ELSE "handler_raised"
    /\ UNCHANGED <<schedule, before, runs, feed, conv>>

\* log_scheduled_arrival_times(); print("Finished.")
MatchSchedule ==
    /\ pc = "deduplicated"
    /\ LET r == log_scheduled_arrival_times(history, schedule)
       IN  /\ history' = r.lines
           /\ pc' = IF r.raised = "" THEN "finished" ELSE "handler_raised"
    /\ UNCHANGED <<schedule, before, runs, feed, conv>>

Next ==
    \/ Start
    \/ Poll
    \/ Wake
    \/ InterruptSleeping
    \/ InterruptWorking
    \/ Deduplicate
    \/ MatchSchedule

Spec == Init /\ [][Next]_vars

----------------------------------------------------------------------------
(* Claims about the deduplicator (checked under SpecDedup) *)

Finished == pc \in {"returned", "raised"}

KeyOf(line) == <<line[1], line[4], line[7]>>

AllParse(log) == \A i \in 1..Len(log) : Len(log[i]) >= 7

\* line i of the log is the last-written line with its key
LastOfKey(log, i) == \A j \in (i + 1)..Len(log) : KeyOf(log[j]) # KeyOf(log[i])

\* the lines of the log from line i on that are the last of their key
RECURSIVE LastOfEachKey(_, _)
LastOfEachKey(log, i) ==
    IF i > Len(log) THEN <<>>
    ELSE (IF LastOfKey(log, i) THEN <<log[i]>> ELSE <<>>) \o LastOfEachKey(log, i + 1)

ShortLines(log) == SelectSeq(log, LAMBDA line : Len(line) < 7)

\* C6: on a log holding a line with fewer than 7 fields the pass returns
\* without raising and the rewritten log holds every such line, as it was and
\* in its place among them.
C6_ShortLinesRetained ==
    (Finished /\ ~AllParse(before)) =>
        /\ pc = "returned"
        /\ ShortLines(history) = ShortLines(before)

\* the header (itself a line of 10 fields) and rows of 9 or 10 fields
WellFormedLog(log) ==
    /\ header_line \in Range(log)
    /\ \A i \in 1..Len(log) : Len(log[i]) \in {9, 10}

\* C10: the pass run on its own output (a header and 9- or 10-field rows)
\* returns that output unchanged.
C10_DedupIdempotent ==
    (Finished /\ runs >= 2 /\ WellFormedLog(before)) =>
        (pc = "returned" /\ history = before)

\* the second run, over a log of a header and three rows
C10_Witness ==
    /\ pc = "returned"
    /\ runs = 2
    /\ WellFormedLog(before)
    /\ Len(before) >= 4
    /\ history = before

----------------------------------------------------------------------------
(* Claims about the schedule matcher (checked under SpecMatch) *)

Unmatched(row) == Len(row) = 9

\* line i of the timetable starts a trip-start block for the row's key: it
\* matches (route_id, translated direction, start-time prefix) and is the
\* first table row or follows a row of another route
StartsBlock(tt, i, row) ==
    /\ at(tt, i)[2] = row[5]
    /\ at(tt, i)[4] = (IF row[6] = "OUTBOUND" THEN "0" ELSE "1")
    /\ startswith(at(tt, i)[5], row[8])
    /\ (i = 1 \/ at(tt, i - 1)[2] # row[5])

HasBlock(tt, row) == \E i \in 1..(Len(tt) - 1) : StartsBlock(tt, i, row)

BlockStart(tt, row) ==
    CHOOSE i \in 1..(Len(tt) - 1) :
        /\ StartsBlock(tt, i, row)
        /\ \A k \in 1..(i - 1) : ~StartsBlock(tt, k, row)

\* the block: the contiguous rows of the trip that starts at line i
Block(tt, i) ==
    {j \in i..(Len(tt) - 1) : \A k \in i..j : at(tt, k)[1] = at(tt, i)[1]}

StopInBlock(tt, row) ==
    \E j \in Block(tt, BlockStart(tt, row)) : at(tt, j)[7] = row[4]

\* HH:MM of an arrival time, the hour reduced by 24 when it is 24 or more
TruncatedArrival(arrival_time) ==
    LET t == clock_fields(arrival_time)
    IN  strftime_HM(IF t[1] >= 24 THEN t[1] - 24 ELSE t[1], t[2])

\* the arrival time of the first row with the row's stop_id, scanning forward
\* from the block's start row
BlockArrival(tt, row) ==
    LET j == CHOOSE j \in BlockStart(tt, row)..(Len(tt) - 1) :
                 /\ at(tt, j)[7] = row[4]
                 /\ \A k \in BlockStart(tt, row)..(j - 1) : at(tt, k)[7] # row[4]
    IN  TruncatedArrival(at(tt, j)[5])

Extensions(row) == {Append(row, t) : t \in MinuteStrings}

\* C2: a 9-field row whose key identifies a trip-start block and whose
\* stop_id occurs in that block (its start row included) is rewritten with the
\* truncated arrival time of the first row from the block's start on that has
\* its stop_id.
C2_MatchedWithBlockArrival ==
    Finished =>
        \A k \in 2..Len(before) :
            (Unmatched(before[k]) /\ HasBlock(schedule, before[k])
                                  /\ StopInBlock(schedule, before[k])) =>
                /\ pc = "returned"
                /\ Append(before[k], BlockArrival(schedule, before[k])) \in Range(history)

\* C3: a 9-field row whose block is found but whose stop_id is in no row of
\* the block is absent from the rewritten log, with or without a scheduled
\* arrival time.
C3_StopOutsideBlockDropped ==
    Finished =>
        \A k \in 2..Len(before) :
            (Unmatched(before[k]) /\ HasBlock(schedule, before[k])
                                  /\ ~StopInBlock(schedule, before[k])) =>
                /\ pc = "returned"
                /\ Range(history) \cap ({before[k]} \cup Extensions(before[k])) = {}

\* C4: a 9-field row whose key has no trip-start block in the timetable is
\* absent from the rewritten log, with or without a scheduled arrival time,
\* and the pass does not raise.
C4_NoBlockDropped ==
    Finished =>
        \A k \in 2..Len(before) :
            (Unmatched(before[k]) /\ ~HasBlock(schedule, before[k])) =>
                /\ pc = "returned"
                /\ Range(history) \cap ({before[k]} \cup Extensions(before[k])) = {}

TenFieldRows(log) == SelectSeq(Tail(log), LAMBDA row : Len(row) = 10)

\* s is t with some elements left out
RECURSIVE IsSubseq(_, _)
IsSubseq(s, t) ==
    IF s = <<>> THEN TRUE
    ELSE IF t = <<>> THEN FALSE
    ELSE IF Head(s) = Head(t) THEN IsSubseq(Tail(s), Tail(t))
    ELSE IsSubseq(s, Tail(t))

\* C9: the pass keeps the header and every 10-field row as they are and in
\* their order, whatever the timetable holds, and a second run on the first
\* run's output leaves the log as it is.
C9_MatchedRowsPassThrough ==
    Finished =>
        /\ history[1] = before[1]
        /\ IsSubseq(TenFieldRows(before), Tail(history))
        /\ (runs >= 2 => history = before)

\* a run that left alone a 10-field row (one that merely has a comma in its
\* stop name) while the 9-field row after it was looked up and extended
C9_Witness ==
    /\ pc = "returned"
    /\ runs = 1
    /\ Len(before) = 3
    /\ before[2] = CommaInStopName
    /\ Unmatched(before[3])
    /\ history = <<header_line, CommaInStopName, Append(before[3], "06:42")>>

----------------------------------------------------------------------------
(* Claim about the conversion (checked under SpecConv) *)

\* C5: the returned time is the minute of the day that lies the given seconds
\* after the date's midnight, and a time in [00:00, 01:00) is returned as
\* 24:MM together with the date that was passed in.
C5_MidnightHourOnOriginalDate ==
    pc = "returned" =>
        LET minute_of_day == (conv.seconds \div 60) % 1440
            hour == minute_of_day \div 60
            minute == minute_of_day % 60
        IN  IF hour = 0
            THEN conv.result = <<conv.date, <<24, minute>>>>
            ELSE conv.result[2] = <<hour, minute>>

----------------------------------------------------------------------------
(* Claims about the program (checked under Spec) *)

\* the response of the poll cycle is not JSON, holds no prediction key, or
\* holds an entry that lacks a key
TransientlyBad(response) ==
    \/ response.kind \in {"not_json", "no_prd"}
    \/ \E i \in 1..Len(response.prd) : ~response.prd[i].complete

\* C7: a poll cycle whose response is transiently bad raises nothing, leaves
\* history.txt as it found it and goes on to sleep.
C7_BadFeedIsNoPredictions ==
    (pc \in {"sleeping", "poll_raised"} /\ TransientlyBad(feed)) =>
        (pc = "sleeping" /\ history = before)

====
